---- MODULE Spec2Model ----
(***************************************************************************)
(* rclone-reporter (src/app.js): two size caches, one for rclone remotes   *)
(* and one for local directories, refreshed by timers and by a manual      *)
(* endpoint, plus the size history of the local directories and the        *)
(* compare endpoint that reads them.                                       *)
(*                                                                         *)
(* Scheduling.  Node runs one callback (a timer, an HTTP request, the      *)
(* completion of an exec) at a time and drains the promise microtask queue *)
(* before it takes the next callback.  `rclone` is run through exec, so    *)
(* an updateRemoteCache call is suspended across callbacks at each await:  *)
(* every such call is an entry of remoteRuns.  getDirectorySize does only  *)
(* synchronous fs calls and settles its promise in the callback that       *)
(* called it, so the awaits of updateLocalCache, addToLocalCache and the   *)
(* compare handler resume as microtasks: localRun and cmp hold the chain   *)
(* that is being drained, and no callback starts while one is pending      *)
(* (MicrotaskPending).                                                     *)
(*                                                                         *)
(* Time is in seconds (the code's milliseconds divided by 1000); an ISO    *)
(* timestamp string is represented by the instant it denotes.  Log output  *)
(* and calculationDurationMs are not represented.                          *)
(***************************************************************************)
EXTENDS Integers, Sequences, FiniteSets, TLC

\* ---------------------------------------------------------------- bounds
MaxCallbacks == 2
\* longest history record handed to getLastModified
MaxSamples == 4

\* ------------------------------------------------------ program constants
Null == -1
ThirtyDays == 2592000
RemoteUpdateInterval == 86400
LocalUpdateInterval == 3600
Hour == 3600

\* ------------------------------------------------------------ input sets
\* the instants the clock is read at: the start, 24 hours later, and 31 days
\* and 90 minutes after the start
Instants == {0, 86400, 2683800}
Listings == {<<>>, <<"r1">>, <<"r1", "r2">>}
ListingError == <<"error">>
LocalPaths == {"/a", "/b"}
LocalSizes == {100, 200}
RcloneResults ==
    {[error |-> TRUE, bytes |-> Null, count |-> Null],
     [error |-> FALSE, bytes |-> Null, count |-> Null],
     [error |-> FALSE, bytes |-> 100, count |-> 2]}
DirectorySizeResults ==
    {[ok |-> FALSE, bytes |-> 0]} \cup {[ok |-> TRUE, bytes |-> b] : b \in LocalSizes}
RemotePathInputs == {"r1:", "r2:", "r1:sub", ""}
LocalPathInputs == LocalPaths \cup {""}
\* byte counts of the entries a comparison is computed from
ByteCounts == {0, 100, 200, 300}
\* timestamps of the samples of a history record: two in the first hour,
\* two in the second, one in the third
SampleInstants == {0, 1800, 3600, 5400, 9000}
SampleBytes == {100, 200}

VARIABLES
    remoteCache,        \* [data, lastUpdated, updateInProgress, updateStartTime]
    localCache,         \* [data, lastUpdated, updateInProgress, updateStartTime]
    remoteCacheTemp,    \* remoteCacheTemp.data
    localCacheTemp,     \* localCacheTemp.data
    localSizeHistory,   \* localSizeHistory.data: path -> sequence of samples
    remoteRuns,         \* the updateRemoteCache calls, each at its await
    localRun,           \* the updateLocalCache call being drained
    cmp,                \* the compare request being drained
    initialPending,     \* the setTimeout(0) of scheduleCacheUpdates is pending
    remoteTimerNext,    \* earliest instant of the next remote setInterval firing
    localTimerNext,     \* earliest instant of the next local setInterval firing
    now,                \* the clock (new Date())
    served,             \* number of timer and request callbacks run
    ev                  \* the callback or continuation that ran last

vars == <<remoteCache, localCache, remoteCacheTemp, localCacheTemp, localSizeHistory,
          remoteRuns, localRun, cmp, initialPending, remoteTimerNext, localTimerNext,
          now, served, ev>>

\* ------------------------------------------------------------------ maps
EmptyMap == [k \in {} |-> Null]

MapSet(m, k, v) == [x \in (DOMAIN m) \cup {k} |-> IF x = k THEN v ELSE m[x]]

\* the key built with a subpath after the colon
RemotePathWithSubpath(remote) == remote \o ":sub"

\* `${remote}:`
RemotePathOf(remote) == remote \o ":"

\* sizeInfo.bytes || 0
OrZero(x) == IF x = Null THEN 0 ELSE x

RemoteEntry(sizeInfo, t) ==
    [bytes |-> OrZero(sizeInfo.bytes), count |-> OrZero(sizeInfo.count),
     timestamp |-> t, error |-> ""]

LocalEntry(sizeBytes, t) ==
    [bytes |-> sizeBytes, count |-> Null, timestamp |-> t, error |-> ""]

\* {...localCache.data.get(localDir), error: message, timestamp: now}
ErrorPatch(entry, message, t) == [entry EXCEPT !.error = message, !.timestamp = t]

Sample(t, b) == [timestamp |-> t, bytes |-> b]

HistoryOf(h, p) == IF p \in DOMAIN h THEN h[p] ELSE <<>>

\* the filter keeping the samples thirty days old or older, not the newer ones
FilterHistoryKeepsOld(history, currentTime) ==
    SelectSeq(history, LAMBDA e : e.timestamp <= currentTime - ThirtyDays)

\* history.filter(entry => new Date(entry.timestamp) > thirtyDaysAgo)
FilterHistory(history, currentTime) ==
    SelectSeq(history, LAMBDA e : e.timestamp > currentTime - ThirtyDays)

\* a sample appended only to an empty record
RecordSizeFirstOnly(history, currentTime, sizeBytes) ==
    IF Len(history) = 0
    THEN FilterHistory(Append(history, Sample(currentTime, sizeBytes)), currentTime)
    ELSE history

\* updateLocalCache: append when the size changed, then keep the last 30 days
RecordSize(history, currentTime, sizeBytes) ==
    IF Len(history) = 0 \/ history[Len(history)].bytes # sizeBytes
    THEN FilterHistory(Append(history, Sample(currentTime, sizeBytes)), currentTime)
    ELSE history

\* the push made only when the size differs from the newest sample's
PushSizeIfChanged(history, t, sizeBytes) ==
    IF Len(history) = 0 \/ history[Len(history)].bytes # sizeBytes
    THEN Append(history, Sample(t, sizeBytes))
    ELSE history

\* addToLocalCache and the compare fallback: push
PushSize(history, t, sizeBytes) == Append(history, Sample(t, sizeBytes))

\* changeTime.setMinutes(0, 0, 0): the start of the hour of t
SetMinutesZero(t) == t - (t % Hour)

\* the loop of getLastModified: the highest index i > 1, scanning down from
\* the end, whose sample differs in bytes from the sample before it; 0 if none
\* the scan run from the oldest sample: the lowest such index
LastChangeIndexOldest(history, i) ==
    LET changes == {k \in 2..i : history[k].bytes # history[k - 1].bytes}
    IN IF changes = {} THEN 0 ELSE CHOOSE k \in changes : \A j \in changes : k <= j

RECURSIVE LastChangeIndex(_, _)
LastChangeIndex(history, i) ==
    IF i <= 1 THEN 0
    ELSE IF history[i].bytes # history[i - 1].bytes THEN i
    ELSE LastChangeIndex(history, i - 1)

\* getLastModified(directoryPath), reading the history map h
getLastModified(h, directoryPath) ==
    LET history == HistoryOf(h, directoryPath)
        i == LastChangeIndex(history, Len(history))
    IN IF Len(history) = 0 THEN Null
       ELSE IF i > 0 THEN SetMinutesZero(history[i].timestamp)
       ELSE SetMinutesZero(history[1].timestamp)

\* the operands exchanged
DifferenceSwapped(remoteSizeBytes, localSizeBytes) == localSizeBytes - remoteSizeBytes

\* const difference = remoteSizeBytes - localSizeBytes
Difference(remoteSizeBytes, localSizeBytes) == remoteSizeBytes - localSizeBytes

Direction(difference) ==
    IF difference > 0 THEN "remote-larger"
    ELSE IF difference < 0 THEN "local-larger"
    ELSE "equal"

\* Math.abs(difference) === 0
IsSynced(difference) == (IF difference < 0 THEN -difference ELSE difference) = 0

\* the quotient cut off after two decimals instead of rounded
ToFixed2Truncating(localSizeBytes, remoteSizeBytes) ==
    (localSizeBytes * 10000) \div remoteSizeBytes

\* ((localSizeBytes / remoteSizeBytes) * 100).toFixed(2), in hundredths of a
\* percent: the nearest hundredth, a tie going up
ToFixed2(localSizeBytes, remoteSizeBytes) ==
    (2 * localSizeBytes * 10000 + remoteSizeBytes) \div (2 * remoteSizeBytes)

\* percentageSynced, in hundredths of a percent
PercentageSynced(localSizeBytes, remoteSizeBytes) ==
    IF remoteSizeBytes > 0 THEN ToFixed2(localSizeBytes, remoteSizeBytes) ELSE 0

\* Array.from(localCache.data.keys()); the order of the sweep changes no result
RECURSIVE KeySeq(_)
KeySeq(S) ==
    IF S = {} THEN <<>>
    ELSE LET k == CHOOSE x \in S : TRUE IN <<k>> \o KeySeq(S \ {k})

\* the loop index staying on a directory or remote whose probe failed
NextIndexRetrying(i, failed) == IF failed THEN i ELSE i + 1

\* i++ of the for loops, reached whether or not the probe of item i failed
NextIndex(i, failed) == i + 1

\* ---------------------------------------------------------- process state
\* one slot for each updateRemoteCache call that can be in flight
RunIds == 1..MaxCallbacks

IdleRemoteRun ==
    [pc |-> "idle", remotes |-> <<>>, i |-> 0,
     startData |-> EmptyMap, startLastUpdated |-> Null, wrote |-> EmptyMap, failed |-> {}]

IdleLocalRun ==
    [pc |-> "idle", localDirs |-> <<>>, i |-> 0, startData |-> EmptyMap, wrote |-> EmptyMap]

IdleCmp == [pc |-> "idle", remotePath |-> "", localPath |-> ""]

\* what the last step did: the callback or continuation that ran (op), whether
\* a manual refresh started or skipped the remote refresh (remote), the update
\* function that returned in it and how (returned, cause), that call's record
\* (run), the status of the HTTP response it sent (status), and for a compare
\* request the paths it named (req) and the JSON payload it answered (body)
NoEvent ==
    [op |-> "none", remote |-> "", returned |-> "none", cause |-> "",
     run |-> <<>>, status |-> 0, req |-> <<>>, body |-> <<>>]

Event(op) == [NoEvent EXCEPT !.op = op]

ActiveRemoteRuns == {id \in RunIds : remoteRuns[id].pc # "idle"}

FreeRemoteRuns == {id \in RunIds : remoteRuns[id].pc = "idle"}

FreeRun == CHOOSE id \in FreeRemoteRuns : \A j \in FreeRemoteRuns : id <= j

\* a promise continuation is queued: it runs before any timer or request callback
MicrotaskPending == localRun.pc # "idle" \/ cmp.pc # "idle"

\* the event loop may take a callback other than the startup timer's: no
\* continuation is queued, and the setTimeout(0) of scheduleCacheUpdates, due
\* as soon as the server listens, has run (a request served within that first
\* millisecond is not represented)
LoopReady == ~MicrotaskPending /\ ~initialPending

EmptyCache ==
    [data |-> EmptyMap, lastUpdated |-> Null, updateInProgress |-> FALSE,
     updateStartTime |-> Null]

Init ==
    /\ remoteCache = EmptyCache
    /\ localCache = EmptyCache
    /\ remoteCacheTemp = EmptyMap
    /\ localCacheTemp = EmptyMap
    /\ localSizeHistory = EmptyMap
    /\ remoteRuns = [id \in RunIds |-> IdleRemoteRun]
    /\ localRun = IdleLocalRun
    /\ cmp = IdleCmp
    /\ initialPending \in BOOLEAN
    /\ remoteTimerNext = RemoteUpdateInterval
    /\ localTimerNext = LocalUpdateInterval
    /\ now = 0
    /\ served = 0
    /\ ev = Event("listen")

\* ------------------------------------------------------------ the caches
\* cache.updateInProgress = true; cache.updateStartTime = new Date().toISOString()
MarkStarted(cache) == [cache EXCEPT !.updateInProgress = TRUE, !.updateStartTime = now]

\* the finally block without the reset of the flag and of the start time
RemoteFinallyKeepsFlag(cache, temp) == [cache EXCEPT !.data = temp]

\* the finally block of updateRemoteCache
RemoteFinally(cache, temp) ==
    [cache EXCEPT !.data = temp, !.updateInProgress = FALSE, !.updateStartTime = Null]

\* the finally block without the reset of the flag and of the start time
LocalFinallyKeepsFlag(cache, temp) == [cache EXCEPT !.data = temp]

\* the finally block without the replacement of the live map
LocalFinallyKeepsData(cache, temp) ==
    [cache EXCEPT !.updateInProgress = FALSE, !.updateStartTime = Null]

\* the finally block of updateLocalCache
LocalFinally(cache, temp) ==
    [cache EXCEPT !.data = temp, !.updateInProgress = FALSE, !.updateStartTime = Null]

\* updateRemoteCache() up to its first await: the temporary cache is seeded
\* from the live one and `rclone listremotes` is started
StartRemoteRun(cache) ==
    /\ FreeRemoteRuns # {}
    /\ remoteCache' = cache
    /\ remoteCacheTemp' = cache.data
    /\ remoteRuns' = [remoteRuns EXCEPT ![FreeRun] =
           [pc |-> "listing", remotes |-> <<>>, i |-> 0,
            startData |-> cache.data, startLastUpdated |-> cache.lastUpdated,
            wrote |-> EmptyMap, failed |-> {}]]

\* the test that never finds the store empty
NothingTrackedNever(cache) == FALSE

\* localCache.data.size === 0
NothingTracked(cache) == DOMAIN cache.data = {}

\* updateLocalCache() up to the head of its loop: with no tracked directory it
\* returns through the finally block; the temporary cache is not seeded
StartLocalRun(cache, e) ==
    IF NothingTracked(cache)
    THEN /\ localCache' = LocalFinally(cache, localCacheTemp)
         /\ localCacheTemp' = EmptyMap
         /\ localRun' = IdleLocalRun
         /\ ev' = [e EXCEPT !.returned = "local", !.cause = "empty",
                            !.run = [IdleLocalRun EXCEPT !.startData = cache.data]]
    ELSE /\ localCache' = cache
         /\ localRun' = [pc |-> "loop", localDirs |-> KeySeq(DOMAIN cache.data), i |-> 1,
                         startData |-> cache.data, wrote |-> EmptyMap]
         /\ ev' = e
         /\ UNCHANGED localCacheTemp

\* --------------------------------------------------------------- triggers
\* a timer or request callback is taken from the event loop
Serve == served < MaxCallbacks /\ served' = served + 1

\* scheduleCacheUpdates: the setTimeout(0) callback
InitialUpdate ==
    /\ Serve
    /\ initialPending
    /\ ~MicrotaskPending
    /\ initialPending' = FALSE
    /\ StartRemoteRun(MarkStarted(remoteCache))
    /\ StartLocalRun(MarkStarted(localCache), Event("initialUpdate"))
    /\ UNCHANGED <<localSizeHistory, cmp, remoteTimerNext, localTimerNext, now>>

\* scheduleCacheUpdates: the 24 hour setInterval callback
RemoteInterval ==
    /\ Serve
    /\ now >= remoteTimerNext
    /\ LoopReady
    /\ remoteTimerNext' = now + RemoteUpdateInterval
    /\ StartRemoteRun(MarkStarted(remoteCache))
    /\ ev' = Event("remoteInterval")
    /\ UNCHANGED <<localCache, localCacheTemp, localSizeHistory, localRun, cmp,
                   initialPending, localTimerNext, now>>

\* the hourly callback starting both refreshes, as the startup callback does
LocalIntervalBoth ==
    /\ Serve
    /\ now >= localTimerNext
    /\ LoopReady
    /\ localTimerNext' = now + LocalUpdateInterval
    /\ StartRemoteRun(MarkStarted(remoteCache))
    /\ StartLocalRun(MarkStarted(localCache), Event("localInterval"))
    /\ UNCHANGED <<localSizeHistory, cmp, initialPending, remoteTimerNext, now>>

\* scheduleCacheUpdates: the 1 hour setInterval callback
LocalInterval ==
    /\ Serve
    /\ now >= localTimerNext
    /\ LoopReady
    /\ localTimerNext' = now + LocalUpdateInterval
    /\ StartLocalRun(MarkStarted(localCache), Event("localInterval"))
    /\ UNCHANGED <<remoteCache, remoteCacheTemp, localSizeHistory, remoteRuns, cmp,
                   initialPending, remoteTimerNext, now>>

\* the local branch without the test of the store's size
LocalRefreshDueIfIdle(cache) == ~cache.updateInProgress

\* POST /api/cache/refresh starts a local refresh: none is in progress and the
\* store tracks a directory
LocalRefreshDue(cache) == ~cache.updateInProgress /\ DOMAIN cache.data # {}

\* the handler without its updateInProgress check, as the interval callbacks are
ManualRefreshUnguarded ==
    /\ Serve
    /\ LoopReady
    /\ StartRemoteRun(MarkStarted(remoteCache))
    /\ ev' = [Event("manualRefresh") EXCEPT !.remote = "started", !.status = 200]
    /\ UNCHANGED <<localCache, localCacheTemp, localRun, localSizeHistory, cmp,
                   initialPending, remoteTimerNext, localTimerNext, now>>

\* POST /api/cache/refresh
ManualRefresh ==
    /\ Serve
    /\ LoopReady
    /\ LET e == [Event("manualRefresh") EXCEPT
                    !.remote = IF remoteCache.updateInProgress THEN "skipped"
                               ELSE "started",
                    !.status = 200]
       IN /\ IF remoteCache.updateInProgress
             THEN UNCHANGED <<remoteCache, remoteCacheTemp, remoteRuns>>
             ELSE StartRemoteRun(MarkStarted(remoteCache))
          /\ IF LocalRefreshDue(localCache)
             THEN StartLocalRun(MarkStarted(localCache), e)
             ELSE /\ ev' = e
                  /\ UNCHANGED <<localCache, localCacheTemp, localRun>>
    /\ UNCHANGED <<localSizeHistory, cmp, initialPending, remoteTimerNext, localTimerNext,
                   now>>

\* ------------------------------------------------------ updateRemoteCache
\* the rest of updateRemoteCache once the loop is over: lastUpdated, then finally
RemoteRunCompletes(id, temp, run) ==
    /\ remoteCache' = RemoteFinally([remoteCache EXCEPT !.lastUpdated = now], temp)
    /\ remoteCacheTemp' = EmptyMap
    /\ remoteRuns' = [remoteRuns EXCEPT ![id] = IdleRemoteRun]
    /\ ev' = [Event("remoteRun") EXCEPT !.returned = "remote", !.cause = "complete",
                                        !.run = run]

\* `await getAvailableRemotes()` settles
ListingReturn(id) ==
    /\ remoteRuns[id].pc = "listing"
    /\ LoopReady
    /\ \E out \in Listings \cup {ListingError} :
          IF out = ListingError
          THEN \* rejected: the outer catch logs, finally publishes the temporary cache
               /\ remoteCache' = RemoteFinally(remoteCache, remoteCacheTemp)
               /\ remoteCacheTemp' = EmptyMap
               /\ remoteRuns' = [remoteRuns EXCEPT ![id] = IdleRemoteRun]
               /\ ev' = [Event("remoteRun") EXCEPT !.returned = "remote",
                             !.cause = "listingError", !.run = remoteRuns[id]]
          ELSE IF Len(out) = 0
          THEN RemoteRunCompletes(id, remoteCacheTemp,
                                  [remoteRuns[id] EXCEPT !.remotes = out])
          ELSE /\ remoteRuns' = [remoteRuns EXCEPT ![id].pc = "probing",
                                                   ![id].remotes = out, ![id].i = 1]
               /\ ev' = Event("listing")
               /\ UNCHANGED <<remoteCache, remoteCacheTemp>>
    /\ UNCHANGED <<localCache, localCacheTemp, localSizeHistory, localRun, cmp,
                   initialPending, remoteTimerNext, localTimerNext, now, served>>

\* `await getRcloneSize(remotePath)` settles for remotes[i]
ProbeReturn(id) ==
    /\ remoteRuns[id].pc = "probing"
    /\ LoopReady
    /\ \E sizeInfo \in RcloneResults :
          LET run == remoteRuns[id]
              remotePath == RemotePathOf(run.remotes[run.i])
              entry == RemoteEntry(sizeInfo, now)
              temp == IF sizeInfo.error THEN remoteCacheTemp
                      ELSE MapSet(remoteCacheTemp, remotePath, entry)
              after == IF sizeInfo.error
                       THEN [run EXCEPT !.failed = @ \cup {remotePath}]
                       ELSE [run EXCEPT !.wrote = MapSet(@, remotePath, entry)]
              next == NextIndex(run.i, sizeInfo.error)
          IN IF next > Len(run.remotes)
             THEN RemoteRunCompletes(id, temp, after)
             ELSE /\ remoteCacheTemp' = temp
                  /\ remoteRuns' = [remoteRuns EXCEPT ![id] = [after EXCEPT !.i = next]]
                  /\ ev' = Event("probe")
                  /\ UNCHANGED remoteCache
    /\ UNCHANGED <<localCache, localCacheTemp, localSizeHistory, localRun, cmp,
                   initialPending, remoteTimerNext, localTimerNext, now, served>>

\* ------------------------------------------------------- updateLocalCache
\* the head of the for loop: the end of the sweep, or fs.existsSync(localDir)
LocalLoop ==
    /\ localRun.pc = "loop"
    /\ IF localRun.i > Len(localRun.localDirs)
       THEN /\ localCache' = LocalFinally([localCache EXCEPT !.lastUpdated = now],
                                          localCacheTemp)
            /\ localCacheTemp' = EmptyMap
            /\ localRun' = IdleLocalRun
            /\ ev' = [Event("localRun") EXCEPT !.returned = "local", !.cause = "complete",
                                               !.run = localRun]
       ELSE \E exists \in BOOLEAN :
               LET localDir == localRun.localDirs[localRun.i] IN
               IF exists
               THEN /\ localRun' = [localRun EXCEPT !.pc = "probe"]
                    /\ ev' = Event("localExists")
                    /\ UNCHANGED <<localCache, localCacheTemp>>
               ELSE /\ localCache' = [localCache EXCEPT !.data = MapSet(@, localDir,
                           ErrorPatch(@[localDir], "Directory no longer exists", now))]
                    /\ localRun' = [localRun EXCEPT !.i = NextIndex(@, TRUE)]
                    /\ ev' = Event("localMissing")
                    /\ UNCHANGED localCacheTemp
    /\ UNCHANGED <<remoteCache, remoteCacheTemp, localSizeHistory, remoteRuns, cmp,
                   initialPending, remoteTimerNext, localTimerNext, now, served>>

\* `await getDirectorySize(localDir)` settles
LocalProbeReturn ==
    /\ localRun.pc = "probe"
    /\ \E r \in DirectorySizeResults :
          LET localDir == localRun.localDirs[localRun.i]
              history == RecordSize(HistoryOf(localSizeHistory, localDir), now, r.bytes)
          IN IF r.ok
             THEN /\ localCacheTemp' = MapSet(localCacheTemp, localDir,
                                              LocalEntry(r.bytes, now))
                  /\ localSizeHistory' = MapSet(localSizeHistory, localDir, history)
                  /\ localRun' = [localRun EXCEPT !.pc = "loop", !.i = NextIndex(@, FALSE),
                         !.wrote = MapSet(@, localDir, LocalEntry(r.bytes, now))]
                  /\ ev' = Event("localProbe")
                  /\ UNCHANGED localCache
             ELSE /\ localCache' = [localCache EXCEPT !.data = MapSet(@, localDir,
                         ErrorPatch(@[localDir], "getDirectorySize failed", now))]
                  /\ localRun' = [localRun EXCEPT !.pc = "loop", !.i = NextIndex(@, TRUE)]
                  /\ ev' = Event("localProbeFailed")
                  /\ UNCHANGED <<localCacheTemp, localSizeHistory>>
    /\ UNCHANGED <<remoteCache, remoteCacheTemp, remoteRuns, cmp,
                   initialPending, remoteTimerNext, localTimerNext, now, served>>

\* ------------------------------------------------------ POST /api/compare
\* the request a response answers: its paths, and whether fs.existsSync found
\* the local path when the handler validated it
Request(remotePath, localPath, exists) ==
    [remotePath |-> remotePath, localPath |-> localPath, exists |-> exists]

\* the validation without the existsSync check
InvalidIgnoresExistence(remotePath, localPath, exists) ==
    remotePath = "" \/ localPath = ""

\* !remotePath || !localPath, then !fs.existsSync(localPath)
Invalid(remotePath, localPath, exists) ==
    remotePath = "" \/ localPath = "" \/ ~exists

\* the test that never finds the path, so that every request probes
CachedNever(cache, localPath) == FALSE

\* localCache.data.has(localPath)
Cached(cache, localPath) == localPath \in DOMAIN cache.data

\* the insert that also stamps the store's lastUpdated
CacheDirectoryStamped(cache, directoryPath, dirInfo) ==
    [cache EXCEPT !.data = MapSet(@, directoryPath, dirInfo),
                  !.lastUpdated = dirInfo.timestamp]

\* the insert keyed by a fixed path instead of the path asked for
CacheDirectoryAtRoot(cache, directoryPath, dirInfo) ==
    [cache EXCEPT !.data = MapSet(@, "/", dirInfo)]

\* localCache.data.set(directoryPath, dirInfo) of addToLocalCache
CacheDirectory(cache, directoryPath, dirInfo) ==
    [cache EXCEPT !.data = MapSet(@, directoryPath, dirInfo)]

\* the cache-miss payload reporting the local store's status for the remote's
CacheMissLocalStatus(lastModified, localSizeBytes, cachedAt) ==
    [status |-> "cache-miss",
     lastModified |-> lastModified,
     local |-> [bytes |-> localSizeBytes, cachedAt |-> cachedAt],
     cacheStatus |-> [lastFullUpdate |-> localCache.lastUpdated,
                      updateInProgress |-> localCache.updateInProgress,
                      updateStartTime |-> localCache.updateStartTime]]

\* the cache-miss payload
CacheMiss(lastModified, localSizeBytes, cachedAt) ==
    [status |-> "cache-miss",
     lastModified |-> lastModified,
     local |-> [bytes |-> localSizeBytes, cachedAt |-> cachedAt],
     cacheStatus |-> [lastFullUpdate |-> remoteCache.lastUpdated,
                      updateInProgress |-> remoteCache.updateInProgress,
                      updateStartTime |-> remoteCache.updateStartTime]]

\* the full comparison payload
Comparison(remoteSizeData, lastModified, localSizeBytes, cachedAt) ==
    LET difference == Difference(remoteSizeData.bytes, localSizeBytes) IN
    [status |-> "compared",
     lastModified |-> lastModified,
     remote |-> [bytes |-> remoteSizeData.bytes, count |-> remoteSizeData.count,
                 cachedAt |-> remoteSizeData.timestamp],
     local |-> [bytes |-> localSizeBytes, cachedAt |-> cachedAt],
     difference |-> [bytes |-> difference, direction |-> Direction(difference)],
     syncStatus |-> [percentageSynced |->
                         PercentageSynced(localSizeBytes, remoteSizeData.bytes),
                     isSynced |-> IsSynced(difference)],
     cacheStatus |-> [remoteLastUpdate |-> remoteCache.lastUpdated,
                      localLastUpdate |-> localCache.lastUpdated]]

\* the rest of the handler once the local size is resolved: 404 cache-miss when
\* the remote is not cached, else the comparison; h is the history map as the
\* handler left it, cachedAt the timestamp of localSizeData or Null without one
Respond(remotePath, localPath, localSizeBytes, cachedAt, h) ==
    LET lastModified == getLastModified(h, localPath) IN
    [Event("compare") EXCEPT
        !.req = Request(remotePath, localPath, TRUE),
        !.status = IF remotePath \in DOMAIN remoteCache.data THEN 200 ELSE 404,
        !.body = IF remotePath \in DOMAIN remoteCache.data
                 THEN Comparison(remoteCache.data[remotePath], lastModified,
                                 localSizeBytes, cachedAt)
                 ELSE CacheMiss(lastModified, localSizeBytes, cachedAt)]

\* the handler up to its response or to the first await
CompareRequest ==
    /\ Serve
    /\ LoopReady
    /\ \E remotePath \in RemotePathInputs, localPath \in LocalPathInputs,
          exists \in BOOLEAN, stillExists \in BOOLEAN :
          IF Invalid(remotePath, localPath, exists)
          THEN /\ ev' = [Event("compare") EXCEPT !.status = 400,
                              !.req = Request(remotePath, localPath, exists)]
               /\ UNCHANGED cmp
          ELSE IF Cached(localCache, localPath)
          THEN /\ ev' = Respond(remotePath, localPath,
                                localCache.data[localPath].bytes,
                                localCache.data[localPath].timestamp,
                                localSizeHistory)
               /\ UNCHANGED cmp
          ELSE \* addToLocalCache: throws when the directory is gone, else probes
               /\ cmp' = [pc |-> IF stillExists THEN "adding" ELSE "fallback",
                          remotePath |-> remotePath, localPath |-> localPath]
               /\ ev' = [Event("compareProbe") EXCEPT
                             !.req = Request(remotePath, localPath, exists)]
    /\ UNCHANGED <<remoteCache, localCache, remoteCacheTemp, localCacheTemp,
                   localSizeHistory, remoteRuns, localRun, initialPending,
                   remoteTimerNext, localTimerNext, now>>

\* addToLocalCache after `await getDirectorySize(directoryPath)`
CompareAddReturn ==
    /\ cmp.pc = "adding"
    /\ \E r \in DirectorySizeResults :
          IF r.ok
          THEN LET history == PushSize(HistoryOf(localSizeHistory, cmp.localPath),
                                       now, r.bytes)
               IN /\ localCache' = CacheDirectory(localCache, cmp.localPath,
                                                  LocalEntry(r.bytes, now))
                  /\ localSizeHistory' = MapSet(localSizeHistory, cmp.localPath, history)
                  /\ cmp' = IdleCmp
                  /\ ev' = Respond(cmp.remotePath, cmp.localPath, r.bytes, now,
                                   MapSet(localSizeHistory, cmp.localPath, history))
          ELSE \* rethrown to the handler, which calls getDirectorySize itself
               /\ cmp' = [cmp EXCEPT !.pc = "fallback"]
               /\ ev' = [Event("compareFallback") EXCEPT
                             !.req = Request(cmp.remotePath, cmp.localPath, TRUE)]
               /\ UNCHANGED <<localCache, localSizeHistory>>
    /\ UNCHANGED <<remoteCache, remoteCacheTemp, localCacheTemp, remoteRuns, localRun,
                   initialPending, remoteTimerNext, localTimerNext, now, served>>

\* the handler after `await getDirectorySize(localPath)` in its catch block
CompareFallbackReturn ==
    /\ cmp.pc = "fallback"
    /\ \E r \in DirectorySizeResults :
          IF r.ok
          THEN LET history == PushSize(HistoryOf(localSizeHistory, cmp.localPath),
                                       now, r.bytes)
               IN /\ localSizeHistory' = MapSet(localSizeHistory, cmp.localPath, history)
                  /\ ev' = Respond(cmp.remotePath, cmp.localPath, r.bytes, Null,
                                   MapSet(localSizeHistory, cmp.localPath, history))
          ELSE /\ ev' = [Event("compare") EXCEPT !.status = 500,
                              !.req = Request(cmp.remotePath, cmp.localPath, TRUE)]
               /\ UNCHANGED localSizeHistory
    /\ cmp' = IdleCmp
    /\ UNCHANGED <<remoteCache, localCache, remoteCacheTemp, localCacheTemp, remoteRuns,
                   localRun, initialPending, remoteTimerNext, localTimerNext, now, served>>

\* ------------------------------------------------------------- the clock
\* time passes between callbacks; Instants are hours apart, and the drain of
\* one callback's continuations reads a single instant
Advance ==
    /\ LoopReady
    /\ \E t \in Instants : t > now /\ now' = t
    /\ ev' = Event("advance")
    /\ UNCHANGED <<remoteCache, localCache, remoteCacheTemp, localCacheTemp,
                   localSizeHistory, remoteRuns, localRun, cmp, initialPending,
                   remoteTimerNext, localTimerNext, served>>

Next ==
    \/ InitialUpdate
    \/ RemoteInterval
    \/ LocalInterval
    \/ ManualRefresh
    \/ \E id \in RunIds : ListingReturn(id)
    \/ \E id \in RunIds : ProbeReturn(id)
    \/ LocalLoop
    \/ LocalProbeReturn
    \/ CompareRequest
    \/ CompareAddReturn
    \/ CompareFallbackReturn
    \/ Advance

Spec == Init /\ [][Next]_vars

\* an rclone call returns (its exec callback runs) or a queued continuation runs
Completion ==
    \/ \E id \in RunIds : ListingReturn(id)
    \/ \E id \in RunIds : ProbeReturn(id)
    \/ LocalLoop
    \/ LocalProbeReturn
    \/ CompareAddReturn
    \/ CompareFallbackReturn

\* the event loop does not stop while a call has returned or a continuation
\* is queued: rclone calls return, and the continuations are drained
Fairness == WF_vars(Completion)

FairSpec == Spec /\ Fairness

\* ------------------------------------------- the comparison on its inputs
\* the history records getLastModified is applied to: up to MaxSamples samples
\* in the order they were pushed
Histories ==
    {history \in UNION {[1..n -> [timestamp : SampleInstants, bytes : SampleBytes]] :
                            n \in 0..MaxSamples} :
        \A k \in 2..Len(history) : history[k - 1].timestamp < history[k].timestamp}

\* the caches once a refresh has cached r1: and a compare request has inserted
\* /a, for every pair of byte counts; /b has never been asked for
CompareInit ==
    /\ \E remoteBytes \in ByteCounts, count \in {0, 2} :
          remoteCache = [EmptyCache EXCEPT
              !.data = MapSet(EmptyMap, "r1:",
                  [bytes |-> remoteBytes, count |-> count, timestamp |-> 0, error |-> ""]),
              !.lastUpdated = 0]
    /\ \E localBytes \in ByteCounts :
          /\ localCache = [EmptyCache EXCEPT
                 !.data = MapSet(EmptyMap, "/a", LocalEntry(localBytes, 0))]
          /\ localSizeHistory = MapSet(EmptyMap, "/a", <<Sample(0, localBytes)>>)
    /\ remoteCacheTemp = EmptyMap
    /\ localCacheTemp = EmptyMap
    /\ remoteRuns = [id \in RunIds |-> IdleRemoteRun]
    /\ localRun = IdleLocalRun
    /\ cmp = IdleCmp
    /\ initialPending = FALSE
    /\ remoteTimerNext = RemoteUpdateInterval
    /\ localTimerNext = LocalUpdateInterval
    /\ now = 0
    /\ served = 0
    /\ ev = Event("listen")

\* getLastModified applied to a path with the record `history`, or to a path
\* without a record
GetLastModifiedCall ==
    /\ LoopReady
    /\ \E history \in Histories, present \in BOOLEAN :
          LET h == IF present THEN MapSet(EmptyMap, "/a", history) ELSE EmptyMap IN
          ev' = [Event("getLastModified") EXCEPT
                    !.req = [present |-> present, history |-> history],
                    !.body = [lastModified |-> getLastModified(h, "/a")]]
    /\ UNCHANGED <<remoteCache, localCache, remoteCacheTemp, localCacheTemp,
                   localSizeHistory, remoteRuns, localRun, cmp, initialPending,
                   remoteTimerNext, localTimerNext, now, served>>

CompareNext ==
    \/ CompareRequest
    \/ CompareAddReturn
    \/ CompareFallbackReturn

\* POST /api/compare served on those caches
CompareSpec == CompareInit /\ [][CompareNext]_vars

LastModifiedInit == Init /\ initialPending = FALSE

\* getLastModified applied to every record of Histories
LastModifiedSpec == LastModifiedInit /\ [][GetLastModifiedCall]_vars

\* ------------------------------------------------------------ properties
RemotePathsOf(remotes) == {RemotePathOf(remotes[k]) : k \in 1..Len(remotes)}

RemoteReturned(cause) == ev.returned = "remote" /\ ev.cause = cause

LocalReturned(cause) == ev.returned = "local" /\ ev.cause = cause

\* C1: in every reachable state at most one updateRemoteCache call is in
\* flight (a local refresh is drained within the callback that starts it, so
\* no second one can start beside it).
C1_AtMostOneCycle == Cardinality(ActiveRemoteRuns) <= 1

\* C2: an interval callback that fires while the store's updateInProgress is
\* true starts no refresh and leaves updateInProgress and updateStartTime of
\* that store as they were.
C2_TriggerSkipped ==
    [][/\ (ev'.op = "remoteInterval" /\ remoteCache.updateInProgress)
            => /\ ActiveRemoteRuns' = ActiveRemoteRuns
               /\ remoteCache'.updateInProgress = remoteCache.updateInProgress
               /\ remoteCache'.updateStartTime = remoteCache.updateStartTime
       /\ (ev'.op = "localInterval" /\ localCache.updateInProgress)
            => /\ localRun' = localRun
               /\ localCache'.updateInProgress = localCache.updateInProgress
               /\ localCache'.updateStartTime = localCache.updateStartTime]_vars

\* C3: a manual refresh that finds updateInProgress false sets it, records the
\* start time and starts one refresh; the flag then stays set until an update
\* function returns, and a manual refresh that finds it set starts no refresh
\* and leaves the flag and the start time as they were.
C3_ManualRefreshOnce ==
    [][/\ (ev'.op = "manualRefresh" /\ ~remoteCache.updateInProgress)
            => /\ remoteCache'.updateInProgress
               /\ remoteCache'.updateStartTime = now
               /\ Cardinality(ActiveRemoteRuns') = Cardinality(ActiveRemoteRuns) + 1
       /\ (ev'.op = "manualRefresh" /\ remoteCache.updateInProgress)
            => /\ ActiveRemoteRuns' = ActiveRemoteRuns
               /\ remoteRuns' = remoteRuns
               /\ remoteCache' = remoteCache
       /\ (remoteCache.updateInProgress /\ ~remoteCache'.updateInProgress)
            => ev'.returned = "remote"
       /\ (ev'.op = "manualRefresh" /\ ~localCache.updateInProgress
             /\ DOMAIN localCache.data # {})
            => /\ localCache'.updateInProgress
               /\ localCache'.updateStartTime = now
               /\ localRun.pc = "idle" /\ localRun'.pc = "loop"
       /\ (ev'.op = "manualRefresh" /\ localCache.updateInProgress)
            => localRun' = localRun /\ localCache' = localCache
       /\ (localCache.updateInProgress /\ ~localCache'.updateInProgress)
            => ev'.returned = "local"]_vars

\* a manual refresh was skipped for the remote store: a refresh started earlier
\* is still in flight and the start time is the earlier one
C3_Witness ==
    /\ ev.op = "manualRefresh"
    /\ ev.remote = "skipped"
    /\ Cardinality(ActiveRemoteRuns) = 1
    /\ remoteCache.updateInProgress
    /\ remoteCache.updateStartTime < now

\* C4: in the state an update function returns in (after the sweep, after a
\* listing error, or at once for an empty local store), the store's
\* updateInProgress is false and its updateStartTime is null.
C4_FlagReleasedOnReturn ==
    /\ ev.returned = "remote"
        => ~remoteCache.updateInProgress /\ remoteCache.updateStartTime = Null
    /\ ev.returned = "local"
        => ~localCache.updateInProgress /\ localCache.updateStartTime = Null

\* updateRemoteCache returned through its catch block
C4_Witness == RemoteReturned("listingError") /\ ~remoteCache.updateInProgress

\* C5: when updateRemoteCache returns after a listing error, the remote
\* store's entries are what they were when it was called.  (lastUpdated is
\* written only by a run that completes its sweep, so the failing run leaves it
\* to the other runs; the entries are what its finally block replaces.)
C5_ListingErrorKeepsStore ==
    RemoteReturned("listingError") => remoteCache.data = ev.run.startData

\* C6: when updateLocalCache has published, every path tracked when it was
\* called is a key of the local store, with the entry written for it in this
\* run if its probe succeeded and with its prior entry otherwise.
C6_LocalPublishKeepsPaths ==
    LocalReturned("complete")
        => \A p \in DOMAIN ev.run.startData :
              /\ p \in DOMAIN localCache.data
              /\ localCache.data[p] = IF p \in DOMAIN ev.run.wrote
                                      THEN ev.run.wrote[p]
                                      ELSE ev.run.startData[p]

\* C7: when updateRemoteCache returns after a listing and probes that all
\* succeeded, the remote store has an entry for every listed remote, with
\* bytes >= 0 and with the bytes and count this run's probe returned.
C7_AllListedCached ==
    (RemoteReturned("complete") /\ ev.run.failed = {})
        => \A p \in RemotePathsOf(ev.run.remotes) :
              /\ p \in DOMAIN remoteCache.data
              /\ remoteCache.data[p].bytes >= 0
              /\ remoteCache.data[p] = ev.run.wrote[p]

\* C8: a failing probe does not end the sweep: when updateRemoteCache returns,
\* every listed remote was probed, and each remote whose probe failed has the
\* entry it had when the run was called, or none if it had none.
C8_FailedProbeKeepsEntry ==
    RemoteReturned("complete")
        => /\ (DOMAIN ev.run.wrote) \cup ev.run.failed = RemotePathsOf(ev.run.remotes)
           /\ \A p \in ev.run.failed :
                 IF p \in DOMAIN ev.run.startData
                 THEN p \in DOMAIN remoteCache.data
                      /\ remoteCache.data[p] = ev.run.startData[p]
                 ELSE p \notin DOMAIN remoteCache.data

\* C9: in every history record no two consecutive samples have the same bytes.
C9_HistoryDedup ==
    \A p \in DOMAIN localSizeHistory :
       \A k \in 1..(Len(localSizeHistory[p]) - 1) :
          localSizeHistory[p][k].bytes # localSizeHistory[p][k + 1].bytes

\* C10: no history record holds a sample more than 30 days older than its
\* newest sample.
C10_HistoryWindow ==
    \A p \in DOMAIN localSizeHistory :
       \A k \in 1..Len(localSizeHistory[p]) :
          localSizeHistory[p][k].timestamp
              >= localSizeHistory[p][Len(localSizeHistory[p])].timestamp - ThirtyDays

\* a compare request has just been answered with a comparison or a cache miss
CompareAnswered == ev.op = "compare" /\ ev.status \in {200, 404}

\* the step answers a compare request whose remotePath is not in the remote store
CacheMissStep ==
    /\ ev'.op = "compare"
    /\ ev'.status \in {200, 404}
    /\ ev'.req.remotePath \notin DOMAIN remoteCache.data

\* the cache-miss answer but for its local bytes: status 404, the remote
\* store's lastUpdated, flag and start time, no remote size data, and the
\* remote store as it was
CacheMissFrame ==
    /\ ev'.status = 404
    /\ ev'.body.status = "cache-miss"
    /\ DOMAIN ev'.body \cap {"remote", "difference", "syncStatus"} = {}
    /\ ev'.body.cacheStatus = [lastFullUpdate |-> remoteCache.lastUpdated,
                               updateInProgress |-> remoteCache.updateInProgress,
                               updateStartTime |-> remoteCache.updateStartTime]
    /\ remoteCache' = remoteCache

\* C12 (as claimed): a compare request that passes validation, resolves its
\* local size and names a remotePath absent from the remote store is answered
\* with the cache-miss result, and its localPath is then a key of the local
\* store (cached before, or inserted by the request) whose bytes the answer
\* carries.
C12_CacheMissInserted ==
    [][CacheMissStep =>
          /\ CacheMissFrame
          /\ ev'.req.localPath \in DOMAIN localCache'.data
          /\ ev'.body.local.bytes = localCache'.data[ev'.req.localPath].bytes]_vars

\* C12 (amended): as above, but when the on-demand insert fails and the handler
\* falls back to the direct computation the path is not inserted: the answer
\* carries the directly computed bytes, those of the history sample just
\* pushed, and no cachedAt.
C12_CacheMissResult ==
    [][CacheMissStep =>
          LET localPath == ev'.req.localPath IN
          /\ CacheMissFrame
          /\ IF localPath \in DOMAIN localCache.data
             THEN /\ ev'.body.local.bytes = localCache.data[localPath].bytes
                  /\ localCache' = localCache
             ELSE IF localPath \in DOMAIN localCache'.data
             THEN /\ ev'.body.local.bytes = localCache'.data[localPath].bytes
                  /\ ev'.body.local.cachedAt = localCache'.data[localPath].timestamp
             ELSE /\ ev'.body.local.cachedAt = Null
                  /\ LET history == localSizeHistory'[localPath]
                     IN ev'.body.local.bytes = history[Len(history)].bytes]_vars

\* a cache miss answered through the fallback, while a remote refresh is in
\* flight: the path is not in the local store
C12_Witness ==
    /\ CompareAnswered
    /\ ev.status = 404
    /\ ev.req.localPath \notin DOMAIN localCache.data
    /\ ev.body.cacheStatus.updateInProgress

\* a full comparison has just been answered
Compared == CompareAnswered /\ ev.status = 200

\* the byte counts the comparison was computed from: the remote entry's and
\* the local entry's (the compare request changes neither)
ComparedRemoteBytes == remoteCache.data[ev.req.remotePath].bytes

ComparedLocalBytes ==
    IF ev.req.localPath \in DOMAIN localCache.data
    THEN localCache.data[ev.req.localPath].bytes
    ELSE ev.body.local.bytes

\* C13: on a remote hit the answer has difference = remoteBytes - localBytes,
\* direction remote-larger iff difference > 0, local-larger iff difference < 0,
\* equal iff difference = 0, and isSynced iff difference = 0.
C13_DifferenceDirection ==
    Compared =>
        LET d == ev.body.difference IN
        /\ d.bytes = ComparedRemoteBytes - ComparedLocalBytes
        /\ d.direction \in {"remote-larger", "local-larger", "equal"}
        /\ d.direction = "remote-larger" <=> d.bytes > 0
        /\ d.direction = "local-larger" <=> d.bytes < 0
        /\ d.direction = "equal" <=> d.bytes = 0
        /\ ev.body.syncStatus.isSynced <=> d.bytes = 0

C13_Witness ==
    /\ Compared
    /\ ev.body.difference.direction = "remote-larger"
    /\ ComparedLocalBytes > 0

\* C14: percentageSynced (in hundredths of a percent) is 0 when remoteBytes = 0
\* whatever localBytes is, and otherwise the hundredth nearest to
\* localBytes / remoteBytes * 100, which is 100.00 when the two are equal.
C14_PercentageSynced ==
    Compared =>
        LET pct == ev.body.syncStatus.percentageSynced
            remoteBytes == ComparedRemoteBytes
            localBytes == ComparedLocalBytes
            off == pct * remoteBytes - localBytes * 10000
        IN /\ remoteBytes = 0 => pct = 0
           /\ remoteBytes > 0 => 2 * (IF off < 0 THEN -off ELSE off) <= remoteBytes
           /\ (remoteBytes > 0 /\ localBytes = remoteBytes) => pct = 10000

C14_Witness ==
    /\ Compared
    /\ ComparedRemoteBytes = 300
    /\ ComparedLocalBytes = 200
    /\ ev.body.syncStatus.percentageSynced = 6667

\* the start of the hour t falls in
HourOf(t) == CHOOSE m \in 0..t : m % Hour = 0 /\ m <= t /\ t < m + Hour

CompareRequestStep == ev'.op \in {"compare", "compareProbe"} /\ served' = served + 1

\* C16: a compare request without remotePath or localPath, or whose localPath
\* is not on the filesystem, is answered 400 and changes neither store, flag,
\* temporary cache, running refresh nor history record; no other request is
\* answered 400.
C16_ValidationChangesNothing ==
    [][CompareRequestStep =>
          LET req == ev'.req
              invalid == req.remotePath = "" \/ req.localPath = "" \/ ~req.exists
          IN /\ invalid <=> (ev'.op = "compare" /\ ev'.status = 400)
             /\ invalid => UNCHANGED <<remoteCache, localCache, remoteCacheTemp,
                                       localCacheTemp, localSizeHistory, remoteRuns,
                                       localRun, cmp>>]_vars

\* a request for a path that is gone, refused while a remote refresh runs and
\* the local store tracks a directory
C16_Witness ==
    /\ ev.op = "compare"
    /\ ev.status = 400
    /\ ev.req.remotePath # ""
    /\ ev.req.localPath # ""
    /\ ~ev.req.exists
    /\ DOMAIN localCache.data # {}

\* the step belongs to the handling of a compare request
CompareStep == ev'.op \in {"compare", "compareProbe", "compareFallback"}

\* C17: handling a compare request changes nothing but the local store's
\* entry for the request's localPath and that path's history record, which
\* gains at most one sample: the remote store, every other local entry and
\* record, and lastUpdated, updateInProgress and updateStartTime of both
\* stores stay as they are.
C17_CompareFrame ==
    [][CompareStep =>
          LET localPath == ev'.req.localPath
              others(m) == DOMAIN m \ {localPath}
          IN /\ UNCHANGED <<remoteCache, remoteCacheTemp, localCacheTemp, remoteRuns,
                            localRun>>
             /\ localCache' = [localCache EXCEPT !.data = localCache'.data]
             /\ others(localCache'.data) = others(localCache.data)
             /\ \A p \in others(localCache.data) :
                   localCache'.data[p] = localCache.data[p]
             /\ others(localSizeHistory') = others(localSizeHistory)
             /\ \A p \in others(localSizeHistory) :
                   localSizeHistory'[p] = localSizeHistory[p]
             /\ localPath \in DOMAIN localSizeHistory =>
                   /\ localPath \in DOMAIN localSizeHistory'
                   /\ \/ localSizeHistory'[localPath] = localSizeHistory[localPath]
                      \/ /\ Len(localSizeHistory'[localPath])
                               = Len(localSizeHistory[localPath]) + 1
                         /\ SubSeq(localSizeHistory'[localPath], 1,
                                   Len(localSizeHistory[localPath]))
                               = localSizeHistory[localPath]]_vars

\* a request has inserted its path beside another tracked path
C17_Witness ==
    /\ CompareAnswered
    /\ Cardinality(DOMAIN localCache.data) = 2
    /\ ev.body.local.cachedAt = now
    /\ Len(localSizeHistory[ev.req.localPath]) = 1

\* C18: POST /api/cache/refresh answers in the callback that serves it, with
\* the remote refresh it started still in flight; it starts the remote refresh
\* unless one is in progress, and the local one only if the local store is not
\* empty: with an empty local store it leaves the local flag alone and does
\* not call updateLocalCache.
C18_ManualRefreshFireAndForget ==
    [][ev'.op = "manualRefresh" =>
          /\ ev'.status = 200
          /\ ~remoteCache.updateInProgress =>
                \E id \in RunIds : /\ remoteRuns[id].pc = "idle"
                                    /\ remoteRuns'[id].pc = "listing"
                                    /\ remoteCache'.updateInProgress
          /\ DOMAIN localCache.data = {} =>
                /\ localCache' = localCache
                /\ localRun' = localRun
                /\ ev'.returned # "local"
          /\ (DOMAIN localCache.data # {} /\ ~localCache.updateInProgress) =>
                /\ localRun'.pc = "loop"
                /\ localCache'.updateInProgress
                /\ localCache'.updateStartTime = now]_vars

\* a manual refresh on an empty local store has started the remote refresh only
C18_Witness ==
    /\ ev.op = "manualRefresh"
    /\ ev.remote = "started"
    /\ DOMAIN localCache.data = {}
    /\ ~localCache.updateInProgress
    /\ localRun.pc = "idle"
    /\ Cardinality(ActiveRemoteRuns) = 1

\* the store holds an entry that the call `id`, still in flight, has written
\* in its sweep and that differs from the entry the call started with
ShowsSweepOf(id) ==
    \E p \in DOMAIN remoteRuns[id].wrote \cap DOMAIN remoteCache.data :
        /\ remoteCache.data[p] = remoteRuns[id].wrote[p]
        /\ p \in DOMAIN remoteRuns[id].startData =>
              remoteRuns[id].startData[p] # remoteRuns[id].wrote[p]

\* C19: the entries of the remote store change only when an updateRemoteCache
\* call publishes in its finally block, and while a call is in flight the
\* store shows nothing of that call's sweep: a reader never sees a partly
\* updated map.
C19_PublishOnly ==
    /\ [](\A id \in ActiveRemoteRuns : ~ShowsSweepOf(id))
    /\ [][remoteCache'.data # remoteCache.data => ev'.returned = "remote"]_vars

\* C20: when every rclone call and every directory probe returns, a store
\* whose updateInProgress is true later has it false (P ~> ~P, which is
\* []<>~P).
C20_CyclesTerminate ==
    /\ []<>~remoteCache.updateInProgress
    /\ []<>~localCache.updateInProgress

\* a remote refresh has swept two remotes and returned
C20_Witness ==
    /\ RemoteReturned("complete")
    /\ Len(ev.run.remotes) = 2
    /\ ~remoteCache.updateInProgress
    /\ ActiveRemoteRuns = {}

\* C21: a key of the remote store stays a key: no step removes a remote's
\* entry, whether the listing still names the remote or not, whether its probe
\* fails, and whether the listing itself fails.
C21_RemoteKeysKept ==
    [][DOMAIN remoteCache.data \subseteq DOMAIN remoteCache'.data]_vars

\* C22: a compare request that passes validation and whose localPath is a key
\* of the local store is answered in the callback that serves it, from the
\* cached entry: no probe is started, no history sample is appended, the local
\* store is left as it was, and the answer carries the entry's bytes and
\* timestamp.
C22_CachedLocalUsed ==
    [][(/\ CompareRequestStep
        /\ ~(ev'.req.remotePath = "" \/ ev'.req.localPath = "" \/ ~ev'.req.exists)
        /\ ev'.req.localPath \in DOMAIN localCache.data)
          => LET entry == localCache.data[ev'.req.localPath] IN
             /\ ev'.op = "compare"
             /\ ev'.status \in {200, 404}
             /\ cmp' = IdleCmp
             /\ localCache' = localCache
             /\ localCacheTemp' = localCacheTemp
             /\ localSizeHistory' = localSizeHistory
             /\ ev'.body.local.bytes = entry.bytes
             /\ ev'.body.local.cachedAt = entry.timestamp]_vars

\* a request answered from an entry that an earlier request had inserted: the
\* record still holds the one sample of the insert
C22_Witness ==
    /\ CompareAnswered
    /\ ev.req.localPath \in DOMAIN localCache.data
    /\ ev.body.local.cachedAt = localCache.data[ev.req.localPath].timestamp
    /\ ev.body.local.cachedAt < now
    /\ Len(localSizeHistory[ev.req.localPath]) = 1

\* C23: when addToLocalCache fails for an uncached localPath (the directory is
\* gone, or getDirectorySize rejects) the handler computes the size directly.
\* If that succeeds the local store still has no entry for localPath, the
\* path's history record has gained exactly one sample, with the computed
\* bytes and the current time, and the answer (comparison or cache miss)
\* reports those bytes with no cachedAt; if it fails the request is answered
\* 500 and neither the store nor the record changes.
C23_FallbackUncached ==
    [][/\ (cmp.pc = "adding" /\ cmp.localPath \notin DOMAIN localCache'.data)
            => /\ cmp'.pc = "fallback"
               /\ cmp'.localPath = cmp.localPath
               /\ UNCHANGED <<localCache, localSizeHistory>>
       /\ cmp.pc = "fallback"
            => LET localPath == cmp.localPath
                   before == HistoryOf(localSizeHistory, localPath)
               IN /\ cmp'.pc = "idle"
                  /\ ev'.op = "compare"
                  /\ localCache' = localCache
                  /\ localPath \notin DOMAIN localCache'.data
                  /\ IF ev'.status = 500
                     THEN localSizeHistory' = localSizeHistory
                     ELSE /\ ev'.status \in {200, 404}
                          /\ ev'.body.local.cachedAt = Null
                          /\ localPath \in DOMAIN localSizeHistory'
                          /\ localSizeHistory'[localPath]
                                = Append(before, Sample(now, ev'.body.local.bytes))]_vars

\* the fallback has answered for a path that an earlier fallback had already
\* sampled: the path is not in the store and its record holds both samples
C23_Witness ==
    /\ CompareAnswered
    /\ ev.body.local.cachedAt = Null
    /\ ev.req.localPath \notin DOMAIN localCache.data
    /\ Len(localSizeHistory[ev.req.localPath]) = 2
    /\ localSizeHistory[ev.req.localPath][2].bytes = ev.body.local.bytes
    /\ localSizeHistory[ev.req.localPath][1].bytes = ev.body.local.bytes

\* the entry carries an error marker
Marked(entry) == entry.error # ""

LocalTimerStep == ev'.op \in {"initialUpdate", "localInterval"}

\* C25: updateLocalCache called on an empty local store returns at once: no
\* directory is probed, the store's entries and lastUpdated and every history
\* record are as before the call, and updateInProgress is false when it
\* returns.
C25_EmptyCycleNoOp ==
    [][(LocalTimerStep /\ DOMAIN localCache.data = {})
          => /\ ev'.returned = "local"
             /\ ev'.cause = "empty"
             /\ localRun' = IdleLocalRun
             /\ localCache'.data = localCache.data
             /\ localCache'.lastUpdated = localCache.lastUpdated
             /\ ~localCache'.updateInProgress
             /\ localCacheTemp' = localCacheTemp
             /\ localSizeHistory' = localSizeHistory]_vars

\* the hourly timer has called updateLocalCache on an empty store beside a
\* history record that a compare request left
C25_Witness ==
    /\ LocalReturned("empty")
    /\ ev.op = "localInterval"
    /\ DOMAIN localCache.data = {}
    /\ DOMAIN localSizeHistory # {}
    /\ ~localCache.updateInProgress

\* the step runs or ends an updateLocalCache call
LocalRunStep == localRun.pc # "idle" \/ localRun'.pc # "idle" \/ ev'.returned = "local"

\* C26: the local store starts empty and gains a key only in the step in
\* which addToLocalCache, called by a compare request, inserts that request's
\* localPath; a step of updateLocalCache never adds a key.  (Hence every key
\* of the store in a reachable state was inserted by an earlier compare
\* request.)
C26_KeysOnlyByCompare ==
    /\ DOMAIN localCache.data = {}
    /\ [][\A p \in DOMAIN localCache'.data \ DOMAIN localCache.data :
             /\ cmp.pc = "adding"
             /\ cmp.localPath = p
             /\ ev'.op = "compare"
             /\ ev'.req.localPath = p
             /\ ev'.body.local.cachedAt = now]_vars
    /\ [][LocalRunStep => DOMAIN localCache'.data \subseteq DOMAIN localCache.data]_vars

\* a refresh has measured and published the one directory a compare request
\* had inserted
C26_Witness ==
    /\ LocalReturned("complete")
    /\ DOMAIN localCache.data # {}
    /\ DOMAIN localCache.data = DOMAIN ev.run.startData
    /\ DOMAIN localCache.data = DOMAIN ev.run.wrote

\* the step is the daily timer's call of updateRemoteCache or a continuation
\* of an updateRemoteCache call
RemoteCycleStep == ev'.op \in {"remoteInterval", "listing", "probe", "remoteRun"}

\* the step is the hourly timer's call of updateLocalCache or a continuation
\* of an updateLocalCache call
LocalCycleStep ==
    ev'.op \in {"localInterval", "localExists", "localMissing", "localProbe",
                "localProbeFailed", "localRun"}

\* C27: a step of a remote refresh leaves the local store (entries,
\* lastUpdated, flag, start time), the local temporary cache, the running local
\* refresh and every history record as they are; a step of a local refresh
\* leaves the remote store, the remote temporary cache and the running remote
\* refreshes as they are.  (That the two can be in flight together is the
\* state C27_Witness.)
C27_StoresIndependent ==
    /\ [][RemoteCycleStep => UNCHANGED <<localCache, localCacheTemp, localSizeHistory,
                                         localRun>>]_vars
    /\ [][LocalCycleStep => UNCHANGED <<remoteCache, remoteCacheTemp, remoteRuns>>]_vars

\* a local refresh is awaiting its probe while a remote refresh awaits rclone
C27_Witness ==
    /\ localRun.pc = "probe"
    /\ localCache.updateInProgress
    /\ ActiveRemoteRuns # {}
    /\ remoteCache.updateInProgress

\* the keys of the first n items of a sweep
RemoteKeysBefore(run, n) == {RemotePathOf(run.remotes[k]) : k \in 1..(n - 1)}

\* the remote keys whose probe has returned in the call `run`
RemoteProbed(run) == (DOMAIN run.wrote) \cup run.failed

\* one probe of the remote call is outstanding, for item i: the probes of the
\* items before it have all returned and none of a later item has started
OneRemoteProbe(run) ==
    run.pc = "probing" =>
        /\ run.i \in 1..Len(run.remotes)
        /\ RemoteProbed(run) = RemoteKeysBefore(run, run.i)
        /\ RemotePathOf(run.remotes[run.i]) \notin RemoteProbed(run)

\* the local call is at item i: only items before it have been measured
OneLocalProbe ==
    /\ localRun.pc = "probe" => localRun.i \in 1..Len(localRun.localDirs)
    /\ localRun.pc # "idle" =>
          DOMAIN localRun.wrote \subseteq {localRun.localDirs[k] : k \in 1..(localRun.i - 1)}

\* a probe of the remote call `id` returns: the sweep moves to the next item,
\* whether the probe failed or not, or ends after the last one
RemoteProbeStep(id) ==
    (remoteRuns[id].pc = "probing" /\ remoteRuns'[id] # remoteRuns[id]) =>
        LET run == remoteRuns[id]
            key == RemotePathOf(run.remotes[run.i])
        IN \/ /\ remoteRuns'[id].pc = "probing"
              /\ remoteRuns'[id].remotes = run.remotes
              /\ remoteRuns'[id].i = run.i + 1
              /\ RemoteProbed(remoteRuns'[id]) = RemoteProbed(run) \cup {key}
           \/ /\ remoteRuns'[id].pc = "idle"
              /\ run.i = Len(run.remotes)
              /\ ev'.returned = "remote"
              /\ RemoteProbed(ev'.run) = RemoteProbed(run) \cup {key}

\* the local call moves: from the head of the loop to the probe of item i or,
\* the directory being gone, to item i + 1; from the probe to item i + 1; and
\* past the last item to its end
LocalProbeStep ==
    /\ (localRun.pc = "loop" /\ localRun' # localRun) =>
          \/ localRun'.pc = "probe" /\ localRun'.i = localRun.i
          \/ localRun'.pc = "loop" /\ localRun'.i = localRun.i + 1
          \/ localRun'.pc = "idle" /\ localRun.i = Len(localRun.localDirs) + 1
    /\ localRun.pc = "probe" =>
          /\ localRun'.pc = "loop"
          /\ localRun'.i = localRun.i + 1
          /\ localRun'.localDirs = localRun.localDirs

\* C28: within one updateRemoteCache or updateLocalCache call the probes run
\* one after the other and none is repeated: while a probe is outstanding it
\* is the call's only one, the probes of all earlier items have returned and
\* no later one has started; when it returns, failed or not, the call goes on
\* to the next item or ends, so each key of the sweep is probed at most once.
C28_ProbesSequential ==
    /\ []((\A id \in RunIds : OneRemoteProbe(remoteRuns[id])) /\ OneLocalProbe)
    /\ [][\A id \in RunIds : RemoteProbeStep(id)]_vars
    /\ [][LocalProbeStep]_vars

\* the probe of r1 has failed and the call is at the probe of r2
C28_Witness ==
    \E id \in RunIds :
        /\ remoteRuns[id].pc = "probing"
        /\ remoteRuns[id].i = 2
        /\ remoteRuns[id].failed = {"r1:"}
        /\ remoteRuns[id].wrote = EmptyMap

\* C29: while an updateRemoteCache call is in flight the remote store's
\* updateInProgress is true, and while an updateLocalCache call is running the
\* local store's is.
C29_FlagWhileActive ==
    /\ ActiveRemoteRuns # {} => remoteCache.updateInProgress
    /\ localRun.pc # "idle" => localCache.updateInProgress

\* the names `rclone listremotes` can list
ListedRemotes == UNION {{listing[k] : k \in 1..Len(listing)} : listing \in Listings}

\* a remote path with a non-empty subpath after the colon
SubpathRequests == {remote \o ":sub" : remote \in ListedRemotes}

C31_HistoryNonEmpty ==
    /\ \A p \in DOMAIN localCache.data :
          p \in DOMAIN localSizeHistory /\ Len(localSizeHistory[p]) > 0
    /\ CompareAnswered => ev.body.lastModified # Null

\* a request has inserted its path half an hour into an hour and reports the
\* start of that hour
C31_Witness ==
    /\ CompareAnswered
    /\ ev.req.localPath \in DOMAIN localCache.data
    /\ Len(localSizeHistory[ev.req.localPath]) = 1
    /\ ev.body.lastModified # Null
    /\ ev.body.lastModified < now
    /\ ev.body.lastModified = SetMinutesZero(now)

\* the newest sample of the history record of p
NewestSample(p) == localSizeHistory[p][Len(localSizeHistory[p])]

\* C32: while no updateLocalCache call is running, the bytes of every entry of
\* the local store are the bytes of the newest sample of that path's history
\* record; so the size and the lastModified of a compare answer come from the
\* same measurement.
C32_EntryMatchesNewestSample ==
    localRun.pc = "idle" =>
        \A p \in DOMAIN localCache.data :
            /\ p \in DOMAIN localSizeHistory
            /\ Len(localSizeHistory[p]) > 0
            /\ localCache.data[p].bytes = NewestSample(p).bytes

\* a refresh has measured a changed size for the directory a compare request
\* had inserted: the entry and the second sample carry the new bytes
C32_Witness ==
    /\ LocalReturned("complete")
    /\ localRun.pc = "idle"
    /\ \E p \in DOMAIN localCache.data :
          /\ Len(localSizeHistory[p]) = 2
          /\ localSizeHistory[p][1].bytes # localSizeHistory[p][2].bytes
          /\ localCache.data[p].bytes = localSizeHistory[p][2].bytes
          /\ localCache.data[p] = ev.run.wrote[p]

====
